---- MODULE Spec2Model ----
(***************************************************************************)
(* OAuth2 token lifecycle manager of anime-schedule-rs.                    *)
(*                                                                         *)
(* The repository carries two revisions of the manager:                    *)
(*   Auth   (src/src/auth.rs)  tokens are plain strings, "" when unset,    *)
(*                             expires_at is a u64, 0 when unset;          *)
(*   Token  (src/src/lib.rs)   tokens and expiry are Option values.        *)
(* The variable kind says which of the two the manager object is.  Every   *)
(* public operation is a sequence of steps of a calling thread; a step     *)
(* ends where the code can be interleaved with another thread (a mutex     *)
(* acquisition, an .await).  The request dispatcher (src/src/api_request.rs) *)
(* reads the access token as an Option and runs on the Token revision.     *)
(***************************************************************************)
EXTENDS Integers, Sequences, FiniteSets, TLC

\* ---------------------------------------------------------------- bounds
NumThreads == 2          \* concurrent callers of one manager
MaxClock   == 3          \* the clock runs from 1 to MaxClock
Ttl        == 1          \* the provider's expires_in (3600 s in production)
MaxIssued  == 2          \* token responses the provider hands out
MaxCsrf    == 2          \* CSRF states cycle through 1..MaxCsrf
MaxScopes  == 2          \* add_scope() calls on one manager
MaxCalls   == 2          \* api_request() calls counted after a callback is registered

Threads == 1..NumThreads

\* ------------------------------------------------------- value encodings
None     == -1           \* Option::None (Token revision only)
Empty    == 0            \* String::new(), the unset token of Auth::new
Manual   == MaxIssued + 1 \* a token string passed to an unchecked setter
NoThread == 0            \* a free mutex

Kinds         == {"Auth", "Token"}
Fields        == {"A", "R", "E"}     \* access_token, refresh_token, expires_at
UserCallbacks == {"cb1", "cb2"}
ScopeNames    == {"s1", "s2"}        \* scope strings a caller passes to add_scope

Unset    == -2           \* a local or a history entry that was never assigned
AppToken == MaxIssued + 2 \* the app token given to the constructor

\* What api_request() reads of a response.
RateLimitHeaders == {"x-ratelimit-limit", "x-ratelimit-remaining", "x-ratelimit-reset"}
HeaderValues     == {"absent", "text", "number"}
StatusClasses    == {"2xx", "4xx", "5xx"}
\* a body that is not JSON, JSON that is not of the result type D, JSON of type D
Bodies           == {"not_json", "json_other", "json_result"}

\* The manager Client::new allocates (lib.rs 56, 60-63 / 80, 82-85); there is one.
ClientNew == 1

NoResp == [acc |-> None, ref |-> None, exp |-> None]
NoSnap == [at |-> Unset, rt |-> Unset, ea |-> Unset, ef |-> Unset]

\* regenerate() before it cloned the scope list and took the callback.  scopes: the
\* clone of auth.rs 375 / lib.rs 422, which the URL carries; callback: what the guard
\* of auth.rs 384 / lib.rs 431 holds.
NoAttempt == [scopes |-> <<>>, callback |-> "none"]

\* api_request() before it built its request.  is_auth: the parameter; bearer: the
\* token attached; sent: request.send() was called; headers, status, text: the
\* response.
NoReq == [is_auth |-> FALSE, bearer |-> Unset, sent |-> FALSE,
          headers |-> [h \in RateLimitHeaders |-> "absent"],
          status |-> "none", text |-> "none"]

\* The two callback slots of an ApiRequest (api_request.rs 23-24), both None after
\* ApiRequest::new (api_request.rs 41-49).
Slots       == {"request_cb", "response_cb"}
NoCallbacks == [s \in Slots |-> "none"]
NoHistory   == [s \in Slots |-> [calls |-> 0, runs |-> 0]]

\* The endpoint request builders with a send() of their own (api/animelists.rs,
\* api/account.rs) and their Option fields: TRUE is Some(..).
ListReads  == {"AnimeListsGet", "AnimeListsGetRoute"}
ListWrites == {"AnimeListsPut", "AnimeListsPutRoute", "AnimeListsDelete"}
Accounts   == {"AccountApiAvatar", "AccountApiBanner", "AccountApiStats"}
Endpoints  == ListReads \cup ListWrites \cup Accounts
NoBuilder  == [endpoint |-> "none", user_id |-> FALSE, xml |-> FALSE, etag |-> FALSE,
               route |-> FALSE]

VARIABLES
  kind,            \* "Auth" or "Token": the revision of the manager
  clock,           \* Utc::now().timestamp()
  access_token,    \* the store
  refresh_token,
  expires_at,
  callback,        \* the installed callback: "unimplemented" or a user callback
  cbLock,          \* owner of the tokio mutex around callback
  locks,           \* Token revision: owner of each field mutex guard held across statements
  issued,          \* number of token responses handed out by the provider
  csrfNext,        \* source of CsrfToken::new_random
  expFrom,         \* history: the token response expires_at was computed from (0: none)
  pc,              \* position of each thread
  top,             \* the public operation each thread called
  result,          \* the value its call returned
  rtok,            \* local `token` of refresh(): the refresh token read
  resp,            \* local `token`: the token endpoint's response
  csrf,            \* local `state` of regenerate()
  cstate,          \* local `client_state` / `res_state`: the state the callback returned
  snap,            \* locals of to_tokens() / Token::is_valid()
  scopes,          \* the scope list (a Vec: insertion order, duplicates kept)
  attempt,         \* locals `scopes` and `callback` of regenerate()
  req,             \* the request and response of api_request()
  handle,          \* the manager the Arc of each thread's client clone points to
  app_token,       \* the app token of the manager
  api,             \* the callback slots of each thread's ApiRequest
  cbHist,          \* history: per slot, calls begun and invocations since it was filled
  builder          \* the endpoint request builder each thread called send() on

store  == <<access_token, refresh_token, expires_at>>
\* what the token operations leave alone: the manager's configuration and the
\* ApiRequest objects and endpoint builders
mgr    == <<kind, callback, scopes, handle, app_token, api, cbHist, builder>>
locals == <<rtok, resp, csrf, cstate, attempt, snap>>
vars   == <<kind, clock, access_token, refresh_token, expires_at, callback, cbLock, locks,
            issued, csrfNext, expFrom, pc, top, result, rtok, resp, csrf, cstate, snap,
            scopes, attempt, req, handle, app_token, api, cbHist, builder>>

\* ------------------------------------------------------------ construction
\* Auth::new (auth.rs 138-149) / Token::new (lib.rs 177-191)
InitToken(k) == IF k = "Auth" THEN Empty ELSE None
InitExpiry(k) == IF k = "Auth" THEN 0 ELSE None

Init ==
  /\ kind \in Kinds
  /\ clock = 1
  /\ access_token = InitToken(kind)
  /\ refresh_token = InitToken(kind)
  /\ expires_at = InitExpiry(kind)
  /\ callback = "unimplemented"
  /\ cbLock = NoThread
  /\ locks = [f \in Fields |-> NoThread]
  /\ issued = 0
  /\ csrfNext = 1
  /\ expFrom = 0
  /\ pc = [t \in Threads |-> "idle"]
  /\ top = [t \in Threads |-> "none"]
  /\ result = [t \in Threads |-> "none"]
  /\ rtok = [t \in Threads |-> None]
  /\ resp = [t \in Threads |-> NoResp]
  /\ csrf = [t \in Threads |-> 0]
  /\ cstate = [t \in Threads |-> 0]
  /\ snap = [t \in Threads |-> NoSnap]
  /\ scopes = <<>>
  /\ attempt = [t \in Threads |-> NoAttempt]
  /\ req = [t \in Threads |-> NoReq]
  /\ handle = [t \in Threads |-> ClientNew]
  /\ app_token = AppToken
  /\ api = [t \in Threads |-> NoCallbacks]
  /\ cbHist = [t \in Threads |-> NoHistory]
  /\ builder = [t \in Threads |-> NoBuilder]

\* --------------------------------------------------------------- helpers
\* A std::sync::Mutex of the store can be locked by t: in the Auth revision every
\* guard is a temporary of one statement, in the Token revision refresh() and
\* regenerate() keep their guards until they return.
CanLock(f) == locks[f] = NoThread

\* now + expires_in, None when the response has no expires_in (Option::map)
ExpiryOf(d) == IF d = None THEN None ELSE clock + d

\* The call of thread t returns r: its guards are dropped, its locals die.
Finish(t, r) ==
  /\ pc' = [pc EXCEPT ![t] = "done"]
  /\ result' = [result EXCEPT ![t] = r]
  /\ rtok' = [rtok EXCEPT ![t] = None]
  /\ resp' = [resp EXCEPT ![t] = NoResp]
  /\ csrf' = [csrf EXCEPT ![t] = 0]
  /\ cstate' = [cstate EXCEPT ![t] = 0]
  /\ attempt' = [attempt EXCEPT ![t] = NoAttempt]
  /\ locks' = [f \in Fields |-> IF locks[f] = t THEN NoThread ELSE locks[f]]
  /\ cbLock' = IF cbLock = t THEN NoThread ELSE cbLock

Goto(t, p) == pc' = [pc EXCEPT ![t] = p]

\* Auth::is_valid (auth.rs 248-250), Token::is_valid (lib.rs 299-309), evaluated
\* on the store at clock time now
IsValidResult(k, a, r, e, now) ==
  IF k = "Auth"
    THEN now < e
    ELSE /\ a # None
         /\ r # None
         /\ e # None /\ now < e

IsValidAt(now) == IsValidResult(kind, access_token, refresh_token, expires_at, now)

is_valid == IsValidAt(clock)

\* Auth::is_refresh_valid (auth.rs 259-261)
is_refresh_valid == clock < expires_at

\* ------------------------------------------------------------ the provider
\* A token endpoint response (oauth2 TokenResponse): the access token is always
\* there, refresh_token() and expires_in() are Options.
Responses ==
  { [acc |-> issued + 1, ref |-> r, exp |-> d] : r \in {issued + 1, None}, d \in {Ttl, None} }

\* ---------------------------------------------------------------- refresh
\* try_refresh's handling of a failed refresh(): Auth::try_refresh (auth.rs 315)
\* propagates it with `?`, Token::try_refresh (lib.rs 352-354, 364-366) calls
\* regenerate().  The result is the next position of the thread.
AfterRefreshError(k, op) ==
  IF op = "try_refresh" /\ k = "Token" THEN "rg_start" ELSE "done"

RefreshError(t, e) ==
  IF AfterRefreshError(kind, top[t]) = "rg_start"
    THEN /\ Goto(t, "rg_start")
         /\ rtok' = [rtok EXCEPT ![t] = None]
         /\ UNCHANGED <<result, resp, csrf, cstate, attempt, locks, cbLock>>
    ELSE Finish(t, e)

\* Token::refresh (lib.rs 393, 413-415): a missing refresh token is Err(Refresh);
\* Auth::refresh (auth.rs 347-354) has no such test and sends whatever it read.
RefreshNeedsToken(k) == k = "Token"

\* auth.rs 347 / lib.rs 392-393: read the refresh token, then send the exchange
RefreshRead(t) ==
  /\ pc[t] = "rf_read"
  /\ CanLock("R")
  /\ IF RefreshNeedsToken(kind) /\ refresh_token = None
       THEN RefreshError(t, "Refresh")
       ELSE /\ Goto(t, "rf_await")
            /\ rtok' = [rtok EXCEPT ![t] = refresh_token]
            /\ UNCHANGED <<result, resp, csrf, cstate, attempt, locks, cbLock>>
  /\ UNCHANGED <<mgr, clock, store, issued, csrfNext, expFrom, top, req, snap>>

\* A refresh() that forgets the old access token when the exchange fails.
RefreshRecvErrDropsToken(t) ==
  /\ pc[t] = "rf_await"
  /\ RefreshError(t, "OAuth2")
  /\ access_token' = InitToken(kind)
  /\ UNCHANGED <<mgr, clock, refresh_token, expires_at, issued, csrfNext, expFrom, top, req, snap>>

\* auth.rs 349-354 / lib.rs 394-399: the exchange fails
RefreshRecvErr(t) ==
  /\ pc[t] = "rf_await"
  /\ RefreshError(t, "OAuth2")
  /\ UNCHANGED <<mgr, clock, store, issued, csrfNext, expFrom, top, req, snap>>

\* auth.rs 349-354 / lib.rs 394-399: the exchange succeeds
RefreshRecvOk(t) ==
  /\ pc[t] = "rf_await"
  /\ issued < MaxIssued
  /\ \E r \in Responses : resp' = [resp EXCEPT ![t] = r]
  /\ issued' = issued + 1
  /\ Goto(t, "rf_setA")
  /\ UNCHANGED <<mgr, clock, store, csrfNext, expFrom, top, req, result, rtok, csrf, cstate, attempt,
                 snap, locks, cbLock>>

\* Taking a field mutex for a write: Auth's setters (auth.rs 177-202) drop the guard
\* at once, Token (lib.rs 401-407, 453-461) keeps it until the function returns.
Acquire(t, f) ==
  IF kind = "Token" THEN [locks EXCEPT ![f] = t] ELSE locks

\* auth.rs 356 / lib.rs 401-402
RefreshSetAccess(t) ==
  /\ pc[t] = "rf_setA"
  /\ CanLock("A")
  /\ access_token' = resp[t].acc
  /\ locks' = Acquire(t, "A")
  /\ Goto(t, "rf_setR")
  /\ UNCHANGED <<mgr, clock, refresh_token, expires_at, issued, csrfNext, expFrom, top, req,
                 result, locals, cbLock>>

\* A refresh() that keeps the refresh token it was called with.
RefreshKeepsRefreshToken(t) ==
  /\ pc[t] = "rf_setR"
  /\ CanLock("R")
  /\ locks' = Acquire(t, "R")
  /\ Goto(t, "rf_setE")
  /\ UNCHANGED <<mgr, clock, store, issued, csrfNext, expFrom, top, req, result, locals, cbLock>>

\* auth.rs 358 (refresh_token().unwrap()) / lib.rs 404-405 (refresh_token().cloned())
RefreshSetRefresh(t) ==
  /\ pc[t] = "rf_setR"
  /\ IF kind = "Auth" /\ resp[t].ref = None
       THEN /\ Finish(t, "Panic")
            /\ UNCHANGED refresh_token
       ELSE /\ CanLock("R")
            /\ refresh_token' = resp[t].ref
            /\ locks' = Acquire(t, "R")
            /\ Goto(t, "rf_setE")
            /\ UNCHANGED <<result, rtok, resp, csrf, cstate, attempt, cbLock>>
  /\ UNCHANGED <<mgr, clock, access_token, expires_at, issued, csrfNext, expFrom, top, req, snap>>

\* auth.rs 360-364 (expires_in().unwrap()) / lib.rs 407-412 (expires_in().map)
RefreshSetExpiry(t) ==
  /\ pc[t] = "rf_setE"
  /\ IF kind = "Auth" /\ resp[t].exp = None
       THEN /\ Finish(t, "Panic")
            /\ UNCHANGED <<expires_at, expFrom>>
       ELSE /\ CanLock("E")
            /\ expires_at' = ExpiryOf(resp[t].exp)
            /\ expFrom' = resp[t].acc
            /\ Finish(t, "Ok")
  /\ UNCHANGED <<mgr, clock, access_token, refresh_token, issued, csrfNext, top, req, snap>>

\* ------------------------------------------------------------------ clock
Tick ==
  /\ clock < MaxClock
  /\ clock' = clock + 1
  /\ UNCHANGED <<mgr, store, cbLock, locks, issued, csrfNext, expFrom, pc, top, req, result,
                 locals>>

\* ------------------------------------------------------------------ calls
Call(t, op, p) ==
  /\ pc[t] = "idle"
  /\ Goto(t, p)
  /\ top' = [top EXCEPT ![t] = op]
  /\ UNCHANGED <<mgr, clock, store, cbLock, locks, issued, csrfNext, expFrom, result, locals,
                 req>>

CallRefresh(t) == Call(t, "refresh", "rf_read")

\* The caller has looked at the returned value.
Return(t) ==
  /\ pc[t] = "done"
  /\ Goto(t, "idle")
  /\ top' = [top EXCEPT ![t] = "none"]
  /\ result' = [result EXCEPT ![t] = "none"]
  /\ snap' = [snap EXCEPT ![t] = NoSnap]
  /\ req' = [req EXCEPT ![t] = NoReq]
  /\ UNCHANGED <<mgr, clock, store, cbLock, locks, issued, csrfNext, expFrom, rtok, resp, csrf,
                 cstate, attempt>>

\* ------------------------------------------------------------- regenerate
\* A regenerate() that takes the CSRF state of the attempt before it.
RegenBeginReusesState(t) ==
  /\ pc[t] = "rg_start"
  /\ csrf' = [csrf EXCEPT ![t] = csrfNext]
  /\ attempt' = [attempt EXCEPT ![t].scopes = scopes]
  /\ Goto(t, "rg_lock")
  /\ UNCHANGED <<mgr, clock, store, cbLock, locks, issued, csrfNext, expFrom, top, req, result,
                 rtok, resp, cstate, snap>>

\* auth.rs 373-382 / lib.rs 420-429: a fresh PKCE pair, a clone of the scope list,
\* a fresh CSRF state, and the URL carrying the cloned scopes in their order
RegenBegin(t) ==
  /\ pc[t] = "rg_start"
  /\ csrf' = [csrf EXCEPT ![t] = csrfNext]
  /\ csrfNext' = (csrfNext % MaxCsrf) + 1
  /\ attempt' = [attempt EXCEPT ![t].scopes = scopes]
  /\ Goto(t, "rg_lock")
  /\ UNCHANGED <<mgr, clock, store, cbLock, locks, issued, expFrom, top, req, result, rtok, resp,
                 cstate, snap>>

\* A regenerate() that does not wait for the callback mutex.
CallbackLockIgnored == TRUE

\* The callback mutex can be taken by regenerate() (auth.rs 384 / lib.rs 431).
CallbackLockFree == cbLock = NoThread

\* auth.rs 384-385 / lib.rs 431-432: take the callback mutex and call the callback;
\* the callback of Auth::new / Token::new is unimplemented!() and panics.
RegenLock(t) ==
  /\ pc[t] = "rg_lock"
  /\ CallbackLockFree
  /\ IF callback = "unimplemented"
       THEN Finish(t, "Panic")
       ELSE /\ cbLock' = t
            /\ attempt' = [attempt EXCEPT ![t].callback = callback]
            /\ Goto(t, "rg_cb")
            /\ UNCHANGED <<result, rtok, resp, csrf, cstate, locks>>
  /\ UNCHANGED <<mgr, clock, store, issued, csrfNext, expFrom, top, req, snap>>

\* A regenerate() that reports a failed callback as a failed exchange.
RegenCallbackErrAsAccess(t) ==
  /\ pc[t] = "rg_cb"
  /\ Finish(t, "Access")
  /\ UNCHANGED <<mgr, clock, store, issued, csrfNext, expFrom, top, req, snap>>

\* A regenerate() that gives up on its callback.
RegenCallbackTimesOut(t) ==
  /\ pc[t] = "rg_cb"
  /\ Finish(t, "Timeout")
  /\ UNCHANGED <<mgr, clock, store, issued, csrfNext, expFrom, top, req, snap>>

\* auth.rs 385-388 / lib.rs 432-435: the callback fails
RegenCallbackErr(t) ==
  /\ pc[t] = "rg_cb"
  /\ Finish(t, "Callback")
  /\ UNCHANGED <<mgr, clock, store, issued, csrfNext, expFrom, top, req, snap>>

\* A regenerate() that takes any returned state.
StateAcceptedAlways(issuedState, returned) == TRUE

\* What regenerate() does with the state the callback returned: auth.rs 391-393 /
\* lib.rs 438-440 compare it with the state of this attempt.
StateAccepted(issuedState, returned) == issuedState = returned

\* auth.rs 385-386 / lib.rs 432-433: the callback returns Ok((code, state))
RegenCallbackOk(t) ==
  /\ pc[t] = "rg_cb"
  /\ \E s \in 1..MaxCsrf : cstate' = [cstate EXCEPT ![t] = s]
  /\ Goto(t, "rg_check")
  /\ UNCHANGED <<mgr, clock, store, cbLock, locks, issued, csrfNext, expFrom, top, req, result,
                 rtok, resp, csrf, attempt, snap>>

\* A regenerate() that starts over when the returned state is not its own.
RegenCheckStateRetries(t) ==
  /\ pc[t] = "rg_check"
  /\ Goto(t, IF StateAccepted(csrf[t], cstate[t]) THEN "rg_await" ELSE "rg_start")
  /\ UNCHANGED <<mgr, clock, store, cbLock, locks, issued, csrfNext, expFrom, top, req, result,
                 locals>>

\* auth.rs 391-401 / lib.rs 438-448: a state other than the one of this attempt is
\* StateMismatch, else the code exchange is sent
RegenCheckState(t) ==
  /\ pc[t] = "rg_check"
  /\ IF StateAccepted(csrf[t], cstate[t])
       THEN /\ Goto(t, "rg_await")
            /\ UNCHANGED <<result, rtok, resp, csrf, cstate, attempt, locks, cbLock>>
       ELSE Finish(t, "StateMismatch")
  /\ UNCHANGED <<mgr, clock, store, issued, csrfNext, expFrom, top, req, snap>>

\* auth.rs 396-404 / lib.rs 443-451: the code exchange fails
RegenRecvErr(t) ==
  /\ pc[t] = "rg_await"
  /\ Finish(t, "Access")
  /\ UNCHANGED <<mgr, clock, store, issued, csrfNext, expFrom, top, req, snap>>

\* auth.rs 396-404 / lib.rs 443-451: the code exchange succeeds
RegenRecvOk(t) ==
  /\ pc[t] = "rg_await"
  /\ issued < MaxIssued
  /\ \E r \in Responses : resp' = [resp EXCEPT ![t] = r]
  /\ issued' = issued + 1
  /\ Goto(t, "rg_setE")
  /\ UNCHANGED <<mgr, clock, store, csrfNext, expFrom, top, req, result, rtok, csrf, cstate, attempt,
                 snap, locks, cbLock>>

\* auth.rs 406-408 (expires_in().unwrap()) / lib.rs 453-456 (expires_in().map)
RegenSetExpiry(t) ==
  /\ pc[t] = "rg_setE"
  /\ IF kind = "Auth" /\ resp[t].exp = None
       THEN /\ Finish(t, "Panic")
            /\ UNCHANGED <<expires_at, expFrom>>
       ELSE /\ CanLock("E")
            /\ expires_at' = ExpiryOf(resp[t].exp)
            /\ expFrom' = resp[t].acc
            /\ locks' = Acquire(t, "E")
            /\ Goto(t, "rg_setA")
            /\ UNCHANGED <<result, rtok, resp, csrf, cstate, attempt, cbLock>>
  /\ UNCHANGED <<mgr, clock, access_token, refresh_token, issued, csrfNext, top, req, snap>>

\* auth.rs 410 / lib.rs 458-459
RegenSetAccess(t) ==
  /\ pc[t] = "rg_setA"
  /\ CanLock("A")
  /\ access_token' = resp[t].acc
  /\ locks' = Acquire(t, "A")
  /\ Goto(t, "rg_setR")
  /\ UNCHANGED <<mgr, clock, refresh_token, expires_at, issued, csrfNext, expFrom, top, req,
                 result, locals, cbLock>>

\* auth.rs 412-414 (refresh_token().unwrap()) / lib.rs 461-464 (refresh_token().cloned())
RegenSetRefresh(t) ==
  /\ pc[t] = "rg_setR"
  /\ IF kind = "Auth" /\ resp[t].ref = None
       THEN /\ Finish(t, "Panic")
            /\ UNCHANGED refresh_token
       ELSE /\ CanLock("R")
            /\ refresh_token' = resp[t].ref
            /\ Finish(t, "Ok")
  /\ UNCHANGED <<mgr, clock, access_token, expires_at, issued, csrfNext, expFrom, top, req, snap>>

CallRegenerate(t) == Call(t, "regenerate", "rg_start")

\* The TokenError values the manager's calls return (errors.rs 8-25).
Failures == {"Refresh", "OAuth2", "Callback", "StateMismatch", "Access", "Revoke"}

\* A caller whose call returned a TokenError calls regenerate() next.
CallRegenerateAgain(t) ==
  /\ pc[t] = "done"
  /\ result[t] \in Failures
  /\ Goto(t, "rg_start")
  /\ top' = [top EXCEPT ![t] = "regenerate_again"]
  /\ result' = [result EXCEPT ![t] = "none"]
  /\ snap' = [snap EXCEPT ![t] = NoSnap]
  /\ req' = [req EXCEPT ![t] = NoReq]
  /\ UNCHANGED <<mgr, clock, store, cbLock, locks, issued, csrfNext, expFrom, rtok, resp, csrf,
                 cstate, attempt>>

\* ------------------------------------------------------------ try_refresh
\* Where try_refresh goes after reading expires_at and the clock.
\* Auth::try_refresh (auth.rs 313-318): refresh() when is_refresh_valid(), else Ok.
\* Token::try_refresh (lib.rs 346-370): the three cases of expires_at.
TryRefreshBranch(k, e, now) ==
  IF k = "Auth" THEN (IF now < e THEN "rf_read" ELSE "done")
  ELSE IF e = None THEN "tr_noexp"
  ELSE IF now >= e THEN "tr_expired"
  ELSE "tr_live"

\* auth.rs 313 / lib.rs 346-348
TryRefreshStart(t) ==
  /\ pc[t] = "tr_start"
  /\ CanLock("E")
  /\ IF TryRefreshBranch(kind, expires_at, clock) = "done"
       THEN Finish(t, "Ok")
       ELSE /\ Goto(t, TryRefreshBranch(kind, expires_at, clock))
            /\ UNCHANGED <<result, rtok, resp, csrf, cstate, attempt, locks, cbLock>>
  /\ UNCHANGED <<mgr, clock, store, issued, csrfNext, expFrom, top, req, snap>>

\* lib.rs 351: the access token is expired; is there a refresh token?
TryRefreshExpired(t) ==
  /\ pc[t] = "tr_expired"
  /\ CanLock("R")
  /\ Goto(t, IF refresh_token # None THEN "rf_read" ELSE "tr_live")
  /\ UNCHANGED <<mgr, clock, store, cbLock, locks, issued, csrfNext, expFrom, top, req, result,
                 locals>>

\* lib.rs 357: access_token is None -> regenerate
TryRefreshLiveAccess(t) ==
  /\ pc[t] = "tr_live"
  /\ CanLock("A")
  /\ Goto(t, IF access_token = None THEN "rg_start" ELSE "tr_live_r")
  /\ UNCHANGED <<mgr, clock, store, cbLock, locks, issued, csrfNext, expFrom, top, req, result,
                 locals>>

\* lib.rs 358-361, 372: refresh_token is None -> regenerate, else nothing to do
TryRefreshLiveRefresh(t) ==
  /\ pc[t] = "tr_live_r"
  /\ CanLock("R")
  /\ IF refresh_token = None
       THEN /\ Goto(t, "rg_start")
            /\ UNCHANGED <<result, rtok, resp, csrf, cstate, attempt, locks, cbLock>>
       ELSE Finish(t, "Ok")
  /\ UNCHANGED <<mgr, clock, store, issued, csrfNext, expFrom, top, req, snap>>

\* lib.rs 362-370: no expiry; refresh when a refresh token is set, else regenerate
TryRefreshNoExpiry(t) ==
  /\ pc[t] = "tr_noexp"
  /\ CanLock("R")
  /\ Goto(t, IF refresh_token # None THEN "rf_read" ELSE "rg_start")
  /\ UNCHANGED <<mgr, clock, store, cbLock, locks, issued, csrfNext, expFrom, top, req, result,
                 locals>>

CallTryRefresh(t) == Call(t, "try_refresh", "tr_start")

\* ----------------------------------------------------------------- revoke
\* The token revoke_token() / revoke_refresh_token() reads (auth.rs 265, 286 /
\* lib.rs 312, 328).
RevokedField(op) == IF op = "revoke_token" THEN access_token ELSE refresh_token

\* Token::revoke_* (lib.rs 313, 329) sends nothing when the token is None;
\* Auth::revoke_* (auth.rs 267-274, 288-295) has no such test.
RevokeSkips(k, tok) == k = "Token" /\ tok = None

\* auth.rs 265-270 / lib.rs 312-317: read the token and build the request.  The
\* revocation URL is set by new(), so building the request does not fail.
RevokeRead(t) ==
  /\ pc[t] = "rv_read"
  /\ CanLock(IF top[t] = "revoke_token" THEN "A" ELSE "R")
  /\ IF RevokeSkips(kind, RevokedField(top[t]))
       THEN Finish(t, "Ok")
       ELSE /\ Goto(t, "rv_await")
            /\ rtok' = [rtok EXCEPT ![t] = RevokedField(top[t])]
            /\ UNCHANGED <<result, resp, csrf, cstate, attempt, locks, cbLock>>
  /\ UNCHANGED <<mgr, clock, store, issued, csrfNext, expFrom, top, req, snap>>

\* auth.rs 272-274 / lib.rs 319-321: the revocation request fails
RevokeRecvErr(t) ==
  /\ pc[t] = "rv_await"
  /\ Finish(t, "Revoke")
  /\ UNCHANGED <<mgr, clock, store, issued, csrfNext, expFrom, top, req, snap>>

\* A revoke_token() / revoke_refresh_token() that forgets the token it revoked.
RevokeRecvOkForgets(t) ==
  /\ pc[t] = "rv_await"
  /\ Finish(t, "Ok")
  /\ IF top[t] = "revoke_token"
       THEN access_token' = InitToken(kind) /\ UNCHANGED <<refresh_token, expires_at>>
       ELSE refresh_token' = InitToken(kind) /\ UNCHANGED <<access_token, expires_at>>
  /\ UNCHANGED <<mgr, clock, issued, csrfNext, expFrom, top, req, snap>>

\* auth.rs 272-276 / lib.rs 319-324: the revocation request succeeds
RevokeRecvOk(t) ==
  /\ pc[t] = "rv_await"
  /\ Finish(t, "Ok")
  /\ UNCHANGED <<mgr, clock, store, issued, csrfNext, expFrom, top, req, snap>>

\* Token::revoke_* take &mut self: no other call on the manager can be running.
CallRevoke(t) ==
  /\ kind = "Token" => \A u \in Threads \ {t} : pc[u] = "idle"
  /\ \E op \in {"revoke_token", "revoke_refresh_token"} : Call(t, op, "rv_read")

RevokeSteps(t) == RevokeRead(t) \/ RevokeRecvErr(t) \/ RevokeRecvOk(t)

\* ---------------------------------------------------------------- readers
\* Auth::to_tokens (auth.rs 155-165): three getters, one mutex each
ToTokensAccess(t) ==
  /\ pc[t] = "tt_a"
  /\ snap' = [snap EXCEPT ![t].at = access_token]
  /\ Goto(t, "tt_r")
  /\ UNCHANGED <<mgr, clock, store, cbLock, locks, issued, csrfNext, expFrom, top, req, result,
                 rtok, resp, csrf, cstate, attempt>>

ToTokensRefresh(t) ==
  /\ pc[t] = "tt_r"
  /\ snap' = [snap EXCEPT ![t].rt = refresh_token]
  /\ Goto(t, "tt_e")
  /\ UNCHANGED <<mgr, clock, store, cbLock, locks, issued, csrfNext, expFrom, top, req, result,
                 rtok, resp, csrf, cstate, attempt>>

ToTokensExpiry(t) ==
  /\ pc[t] = "tt_e"
  /\ snap' = [snap EXCEPT ![t].ea = expires_at, ![t].ef = expFrom]
  /\ Finish(t, "Ok")
  /\ UNCHANGED <<mgr, clock, store, issued, csrfNext, expFrom, top, req>>

CallToTokens(t) == kind = "Auth" /\ Call(t, "to_tokens", "tt_a")

\* Token::is_valid (lib.rs 300-301): has_access_token, has_refresh_token
IsValidAccess(t) ==
  /\ pc[t] = "iv_a"
  /\ CanLock("A")
  /\ snap' = [snap EXCEPT ![t].at = access_token]
  /\ Goto(t, "iv_r")
  /\ UNCHANGED <<mgr, clock, store, cbLock, locks, issued, csrfNext, expFrom, top, req, result,
                 rtok, resp, csrf, cstate, attempt>>

IsValidRefresh(t) ==
  /\ pc[t] = "iv_r"
  /\ CanLock("R")
  /\ snap' = [snap EXCEPT ![t].rt = refresh_token]
  /\ Goto(t, "iv_e")
  /\ UNCHANGED <<mgr, clock, store, cbLock, locks, issued, csrfNext, expFrom, top, req, result,
                 rtok, resp, csrf, cstate, attempt>>

\* Auth::is_valid (auth.rs 249) / Token::is_valid (lib.rs 302-308)
IsValidExpiry(t) ==
  /\ pc[t] = "iv_e"
  /\ CanLock("E")
  /\ snap' = [snap EXCEPT ![t].ea = expires_at, ![t].ef = expFrom]
  /\ Finish(t, IF IsValidResult(kind, snap[t].at, snap[t].rt, expires_at, clock)
                 THEN "true" ELSE "false")
  /\ UNCHANGED <<mgr, clock, store, issued, csrfNext, expFrom, top, req>>

CallIsValid(t) == Call(t, "is_valid", IF kind = "Auth" THEN "iv_e" ELSE "iv_a")

\* ------------------------------------------------------------ persistence
\* An into_auth() that hands the two tokens to the wrong setters.
IntoAuthStoreSwapped(s) == <<s.rt, s.at, s.ea>>

\* AuthTokens::into_auth (auth.rs 71-73): what the three unchecked setters write
\* into the new manager, as <<access_token, refresh_token, expires_at>>.
IntoAuthStore(s) == <<s.at, s.rt, s.ea>>

\* AuthTokens::into_auth (auth.rs 62-76) on the snapshot to_tokens() returned: the
\* manager is from now on the one built by Auth::new (auth.rs 138-149: no scopes,
\* the unimplemented callback, free mutexes) and filled by the setters.  The new
\* manager is not shared before into_auth returns, so this is one step.  The
\* caller passes the app token of the application again.
IntoAuth(t) ==
  /\ kind = "Auth"
  /\ pc[t] = "done" /\ top[t] = "to_tokens"
  /\ top' = [top EXCEPT ![t] = "into_auth"]
  /\ access_token' = IntoAuthStore(snap[t])[1]
  /\ refresh_token' = IntoAuthStore(snap[t])[2]
  /\ expires_at' = IntoAuthStore(snap[t])[3]
  /\ expFrom' = 0
  /\ scopes' = <<>>
  /\ callback' = "unimplemented"
  /\ cbLock' = NoThread
  /\ locks' = [f \in Fields |-> NoThread]
  /\ UNCHANGED <<kind, handle, app_token, api, cbHist, builder, clock, issued, csrfNext, pc, result, locals, req>>

\* --------------------------------------------------------------- setters
\* Token strings a caller passes to the setters.
SetterTokens(k) == IF k = "Auth" THEN {Empty, Manual} ELSE {Manual}

\* set_access_token_unchecked (auth.rs 187-190) / set_access_token (lib.rs 205-208)
SetAccessToken(t) ==
  /\ pc[t] = "idle"
  /\ CanLock("A")
  /\ \E v \in SetterTokens(kind) : access_token' = v
  /\ UNCHANGED <<mgr, clock, refresh_token, expires_at, cbLock, locks, issued, csrfNext,
                 expFrom, pc, top, req, result, locals>>

\* set_refresh_token_unchecked (auth.rs 177-180) / set_refresh_token (lib.rs 200-203)
SetRefreshToken(t) ==
  /\ pc[t] = "idle"
  /\ CanLock("R")
  /\ \E v \in SetterTokens(kind) \cup (IF kind = "Token" THEN {None} ELSE {}) :
       refresh_token' = v
  /\ UNCHANGED <<mgr, clock, access_token, expires_at, cbLock, locks, issued, csrfNext,
                 expFrom, pc, top, req, result, locals>>

\* Expiry timestamps a caller passes: one in the past of every clock value, one the
\* clock reaches, one it never reaches.
ExpiryInputs == {0, MaxClock - 1, MaxClock + 1}

\* set_expires_in_unchecked (auth.rs 193-196) / set_expires_in (lib.rs 211-214)
SetExpiresIn(t) ==
  /\ pc[t] = "idle"
  /\ CanLock("E")
  /\ \E d \in {0, Ttl} \cup (IF kind = "Token" THEN {None} ELSE {}) :
       expires_at' = ExpiryOf(d)
  /\ expFrom' = 0
  /\ UNCHANGED <<mgr, clock, access_token, refresh_token, cbLock, locks, issued, csrfNext,
                 pc, top, req, result, locals>>

\* set_expires_at_unchecked (auth.rs 199-202)
SetExpiresAt(t) ==
  /\ pc[t] = "idle"
  /\ kind = "Auth"
  /\ \E e \in ExpiryInputs : expires_at' = e
  /\ expFrom' = 0
  /\ UNCHANGED <<mgr, clock, access_token, refresh_token, cbLock, locks, issued, csrfNext,
                 pc, top, req, result, locals>>

\* A set_callback() that replaces the callback without waiting for its mutex.
SetCallbackNoWait(t) ==
  /\ pc[t] = "sc_lock"
  /\ kind = "Token" => \A u \in Threads \ {t} : pc[u] = "idle"
  /\ \E f \in UserCallbacks : callback' = f
  /\ Finish(t, "Ok")
  /\ UNCHANGED <<kind, scopes, handle, app_token, api, cbHist, builder, clock, store, issued, csrfNext, expFrom, top, req, snap>>

\* An add_scope() that puts the new scope in front.
AddScopeInFront ==
  /\ Len(scopes) < MaxScopes
  /\ \E sc \in ScopeNames : scopes' = <<sc>> \o scopes
  /\ UNCHANGED <<kind, callback, handle, app_token, api, cbHist, builder, clock, store, cbLock, locks, issued, csrfNext, expFrom, pc,
                 top, req, result, locals>>

\* add_scope (auth.rs 205-208, lib.rs 216-219), called from any thread: one critical
\* section of the scopes mutex that pushes the scope.
AddScope ==
  /\ Len(scopes) < MaxScopes
  /\ \E sc \in ScopeNames : scopes' = Append(scopes, sc)
  /\ UNCHANGED <<kind, callback, handle, app_token, api, cbHist, builder, clock, store, cbLock, locks, issued, csrfNext, expFrom, pc,
                 top, req, result, locals>>

\* set_callback (auth.rs 216-227, lib.rs 280-289).  Token::set_callback takes
\* &mut self: no other call on the manager can be running.
SetCallback(t) ==
  /\ pc[t] = "sc_lock"
  /\ CallbackLockFree
  /\ kind = "Token" => \A u \in Threads \ {t} : pc[u] = "idle"
  /\ \E f \in UserCallbacks : callback' = f
  /\ Finish(t, "Ok")
  /\ UNCHANGED <<kind, scopes, handle, app_token, api, cbHist, builder, clock, store, issued, csrfNext, expFrom, top, req, snap>>

CallSetCallback(t) ==
  /\ kind = "Token" => \A u \in Threads \ {t} : pc[u] = "idle"
  /\ Call(t, "set_callback", "sc_lock")

\* ------------------------------------------------------------- api_request
\* The ApiError values api_request() returns (errors.rs 29-46).
ApiErrors == {"ParseError", "AccessTokenError", "ApiError", "Reqwest"}

\* An api_request() that attaches whatever access_token() returns.
AccessTokenNeverMissing(tok) == FALSE

\* api_request.rs 117-119: access_token().ok_or(ApiError::AccessTokenError)
AccessTokenMissing(tok) == tok = None

\* rate_limit.rs 16-46: every header is fetched with expect() and parsed with
\* unwrap(); RateLimit::new returns a value only when all three hold numbers.
RateLimitPanics(h) == \E n \in RateLimitHeaders : h[n] # "number"

\* api_request.rs 146-155: a body that is not JSON is ApiError with the text, a
\* body serde cannot decode into D is ParseError, else Ok; the status is not
\* looked at.
Classify(status, text) ==
  IF text = "not_json" THEN "ApiError"
  ELSE IF text = "json_other" THEN "ParseError"
  ELSE "Ok"

\* A clone that owns a manager of its own.
CloneDetached(m) == m + 1

\* Client derives Clone over Arc<Token> (lib.rs 40-44) and ApiRequest::clone copies
\* the Arc (api_request.rs 27-39): the clone points to the manager its source
\* points to.
Clone(m) == m

\* A call of api_request() begins: every filled slot has seen one more call.
CallBegun(a, h) ==
  [s \in Slots |-> IF a[s] = "none" \/ h[s].calls = MaxCalls
                     THEN h[s]
                     ELSE [h[s] EXCEPT !.calls = @ + 1]]

\* Option::take() on a slot followed by the call of what was in it
\* (api_request.rs 126-130, 137-139): the slot is None afterwards.
TakeAndRun(t, s) ==
  /\ api' = [api EXCEPT ![t][s] = "none"]
  /\ cbHist' = IF api[t][s] = "none" THEN cbHist
                ELSE [cbHist EXCEPT ![t][s].runs = @ + 1]

\* ApiRequest::request_cb / ApiRequest::response_cb (api_request.rs 51-60): the
\* slot holds the new closure, the one it held is dropped.
RegisterCb(t, s) ==
  /\ pc[t] = "idle"
  /\ kind = "Token"
  /\ api' = [api EXCEPT ![t][s] = "some"]
  /\ cbHist' = [cbHist EXCEPT ![t][s] = [calls |-> 0, runs |-> 0]]
  /\ UNCHANGED <<kind, callback, scopes, handle, app_token, builder, clock, store, cbLock, locks,
                 issued, csrfNext, expFrom, pc, top, result, locals, req>>

RequestCb(t)  == RegisterCb(t, "request_cb")
ResponseCb(t) == RegisterCb(t, "response_cb")

\* impl Clone for ApiRequest (api_request.rs 27-39)
CloneCallbacks(a) == NoCallbacks

\* The owner of an ApiRequest goes on with a clone of it.
ApiRequestClone(t) ==
  /\ pc[t] = "idle"
  /\ kind = "Token"
  /\ api' = [api EXCEPT ![t] = CloneCallbacks(api[t])]
  /\ cbHist' = [cbHist EXCEPT ![t] =
                  [s \in Slots |-> IF CloneCallbacks(api[t])[s] = "none"
                                     THEN [calls |-> 0, runs |-> 0] ELSE cbHist[t][s]]]
  /\ Goto(t, "done")
  /\ top' = [top EXCEPT ![t] = "clone"]
  /\ result' = [result EXCEPT ![t] = "Ok"]
  /\ UNCHANGED <<kind, callback, scopes, handle, app_token, builder, clock, store, cbLock, locks,
                 issued, csrfNext, expFrom, locals, req>>

\* api_request.rs 99-105, called through get / put / delete (62-96), which have
\* already turned the url into a Url.  It reads access_token() as an Option, the
\* store of the Token revision.  The endpoint builder that calls it was made from
\* a clone of some thread's client (lib.rs 94-117).
CallApiRequest(t) ==
  /\ pc[t] = "idle"
  /\ kind = "Token"
  /\ Goto(t, "ar_build")
  /\ top' = [top EXCEPT ![t] = "api_request"]
  /\ \E u \in Threads : handle' = [handle EXCEPT ![t] = Clone(handle[u])]
  /\ \E a \in BOOLEAN : req' = [req EXCEPT ![t] = [NoReq EXCEPT !.is_auth = a]]
  /\ cbHist' = [cbHist EXCEPT ![t] = CallBegun(api[t], cbHist[t])]
  /\ UNCHANGED <<kind, callback, scopes, app_token, api, builder, clock, store, cbLock, locks, issued,
                 csrfNext, expFrom, result, locals>>

\* An api_request() that wants an access token for every request.
ApiBuildAlwaysUser(t) ==
  /\ pc[t] = "ar_build"
  /\ CanLock("A")
  /\ IF AccessTokenMissing(access_token)
       THEN Finish(t, "AccessTokenError") /\ UNCHANGED req
       ELSE /\ req' = [req EXCEPT ![t].bearer = access_token]
            /\ Goto(t, "ar_send")
            /\ UNCHANGED <<result, rtok, resp, csrf, cstate, attempt, locks, cbLock>>
  /\ UNCHANGED <<mgr, clock, store, issued, csrfNext, expFrom, top, snap>>

\* api_request.rs 109-130: build the request and attach the bearer token
ApiBuild(t) ==
  /\ pc[t] = "ar_build"
  /\ IF req[t].is_auth
       THEN /\ CanLock("A")
            /\ IF AccessTokenMissing(access_token)
                 THEN Finish(t, "AccessTokenError") /\ UNCHANGED <<req, api, cbHist>>
                 ELSE /\ req' = [req EXCEPT ![t].bearer = access_token]
                      /\ TakeAndRun(t, "request_cb")
                      /\ Goto(t, "ar_send")
                      /\ UNCHANGED <<result, rtok, resp, csrf, cstate, attempt, locks, cbLock>>
       ELSE /\ req' = [req EXCEPT ![t].bearer = app_token]
            /\ TakeAndRun(t, "request_cb")
            /\ Goto(t, "ar_send")
            /\ UNCHANGED <<result, rtok, resp, csrf, cstate, attempt, locks, cbLock>>
  /\ UNCHANGED <<kind, callback, scopes, handle, app_token, builder, clock, store, issued, csrfNext,
                 expFrom, top, snap>>

\* api_request.rs 132: request.send().await fails
ApiSendErr(t) ==
  /\ pc[t] = "ar_send"
  /\ req' = [req EXCEPT ![t].sent = TRUE]
  /\ Finish(t, "Reqwest")
  /\ UNCHANGED <<mgr, clock, store, issued, csrfNext, expFrom, top, snap>>

\* api_request.rs 132-134, 141: a response arrives
ApiSendOk(t) ==
  /\ pc[t] = "ar_send"
  /\ \E h \in [RateLimitHeaders -> HeaderValues] : \E st \in StatusClasses :
       req' = [req EXCEPT ![t].sent = TRUE, ![t].headers = h, ![t].status = st]
  /\ Goto(t, "ar_limit")
  /\ UNCHANGED <<mgr, clock, store, cbLock, locks, issued, csrfNext, expFrom, top, result,
                 locals>>

\* api_request.rs 135-139: RateLimit::new(headers), then the response callback
ApiRateLimit(t) ==
  /\ pc[t] = "ar_limit"
  /\ IF RateLimitPanics(req[t].headers)
       THEN Finish(t, "Panic") /\ UNCHANGED <<api, cbHist>>
       ELSE /\ TakeAndRun(t, "response_cb")
            /\ Goto(t, "ar_text")
            /\ UNCHANGED <<result, rtok, resp, csrf, cstate, attempt, locks, cbLock>>
  /\ UNCHANGED <<kind, callback, scopes, handle, app_token, builder, clock, store, issued, csrfNext,
                 expFrom, top, req, snap>>

\* api_request.rs 142: response.text().await fails
ApiTextErr(t) ==
  /\ pc[t] = "ar_text"
  /\ Finish(t, "Reqwest")
  /\ UNCHANGED <<mgr, clock, store, issued, csrfNext, expFrom, top, req, snap>>

\* api_request.rs 142: the body is read
ApiTextOk(t) ==
  /\ pc[t] = "ar_text"
  /\ \E b \in Bodies : req' = [req EXCEPT ![t].text = b]
  /\ Goto(t, "ar_class")
  /\ UNCHANGED <<mgr, clock, store, cbLock, locks, issued, csrfNext, expFrom, top, result,
                 locals>>

\* api_request.rs 146-155
ApiClassify(t) ==
  /\ pc[t] = "ar_class"
  /\ Finish(t, Classify(req[t].status, req[t].text))
  /\ UNCHANGED <<mgr, clock, store, issued, csrfNext, expFrom, top, req, snap>>

ApiSteps(t) ==
  \/ ApiBuild(t) \/ ApiSendErr(t) \/ ApiSendOk(t) \/ ApiRateLimit(t)
  \/ ApiTextErr(t) \/ ApiTextOk(t) \/ ApiClassify(t)

\* ------------------------------------------------------ endpoint builders
\* The builders a caller can have made before send(): every Option field the
\* builder's struct has is set or not; the route of AnimeListsGetRoute and
\* AnimeListsPutRoute is a String given to route() (animelists.rs 73-79, 224-232).
Builders ==
  { b \in [endpoint : Endpoints, user_id : BOOLEAN, xml : BOOLEAN, etag : BOOLEAN,
           route : BOOLEAN] :
      /\ b.xml => b.endpoint = "AnimeListsPut"
      /\ b.etag => b.endpoint = "AnimeListsPutRoute"
      /\ b.route <=> \/ b.endpoint \in {"AnimeListsGetRoute", "AnimeListsPutRoute"}
                     \/ b.endpoint = "AnimeListsDelete" /\ b.route }

\* A send() that never misses a field.
MissingNothing(b) == "none"

\* The test of the mandatory field at the head of send(): animelists.rs 261-263
\* (Xml), 407-409 (Etag), 479-481 (Route), account.rs 70-72, 113-115, 156-158
\* (UserId).  The two GET builders have no mandatory Option field.
MissingField(b) ==
  IF b.endpoint = "AnimeListsPut" /\ ~b.xml THEN "Xml"
  ELSE IF b.endpoint = "AnimeListsPutRoute" /\ ~b.etag THEN "Etag"
  ELSE IF b.endpoint = "AnimeListsDelete" /\ ~b.route THEN "Route"
  ELSE IF b.endpoint \in Accounts /\ ~b.user_id THEN "UserId"
  ELSE "none"

\* A send() that takes the app token whenever a user_id is set.
UsesAppTokenByUserId(b) == b.user_id

\* The argument of bearer_auth(): the app token for the account requests
\* (account.rs 80, 123, 166) and for a list GET with a user_id (animelists.rs
\* 94-96, 170-172), the user's access token for a list GET without one (97-105,
\* 173-181) and for every PUT and DELETE (287-294, 424-431, 495-502).
UsesAppToken(b) ==
  \/ b.endpoint \in Accounts
  \/ b.endpoint \in ListReads /\ b.user_id

\* The bodies a response can have: the empty string, which is not JSON, or one of
\* Bodies.
EndpointBodies == Bodies \cup {"empty"}

\* response.status().is_server_error() || response.status().is_client_error()
IsErr(status) == status \in {"4xx", "5xx"}

\* A PUT / DELETE that looks at the status only.
WriteResultByStatus(status, text) ==
  IF IsErr(status) THEN "ApiError" ELSE "Ok"

\* animelists.rs 302-310, 439-447, 509-517
WriteResult(status, text) ==
  IF text # "empty" \/ IsErr(status) THEN "ApiError" ELSE "Ok"

\* animelists.rs 114-120, 197-203: is_json, then serde
ReadResult(status, text) ==
  IF text \in {"empty", "not_json"} THEN "ApiError"
  ELSE IF text = "json_other" THEN "ParseError"
  ELSE "Ok"

\* account.rs 87-97, 130-140, 173-183: the status, then serde
AccountResult(status, text) ==
  IF IsErr(status) THEN "ApiError"
  ELSE IF text = "json_result" THEN "Ok"
  ELSE "ParseError"

SendResult(e, status, text) ==
  IF e \in ListWrites THEN WriteResult(status, text)
  ELSE IF e \in ListReads THEN ReadResult(status, text)
  ELSE AccountResult(status, text)

\* send() is called on a builder made from a clone of some thread's client
\* (lib.rs 100-102, 115-117; animelists.rs 30-54, account.rs 20-59).  The builders
\* read access_token() as an Option, the store of the Token revision.
CallSend(t) ==
  /\ pc[t] = "idle"
  /\ kind = "Token"
  /\ Goto(t, "ep_build")
  /\ top' = [top EXCEPT ![t] = "send"]
  /\ \E u \in Threads : handle' = [handle EXCEPT ![t] = Clone(handle[u])]
  /\ \E b \in Builders : builder' = [builder EXCEPT ![t] = b]
  /\ req' = [req EXCEPT ![t] = NoReq]
  /\ UNCHANGED <<kind, callback, scopes, app_token, api, cbHist, clock, store, cbLock, locks,
                 issued, csrfNext, expFrom, result, locals>>

\* send() up to .send(): the mandatory field, then the bearer token
\* (animelists.rs 82-105, 156-181, 255-295, 407-432, 479-502; account.rs 70-80)
EpBuild(t) ==
  /\ pc[t] = "ep_build"
  /\ IF MissingField(builder[t]) # "none"
       THEN Finish(t, MissingField(builder[t])) /\ UNCHANGED req
       ELSE IF UsesAppToken(builder[t])
         THEN /\ req' = [req EXCEPT ![t].bearer = app_token]
              /\ Goto(t, "ep_send")
              /\ UNCHANGED <<result, rtok, resp, csrf, cstate, attempt, locks, cbLock>>
         ELSE /\ CanLock("A")
              /\ IF AccessTokenMissing(access_token)
                   THEN Finish(t, "AccessTokenError") /\ UNCHANGED req
                   ELSE /\ req' = [req EXCEPT ![t].bearer = access_token, ![t].is_auth = TRUE]
                        /\ Goto(t, "ep_send")
                        /\ UNCHANGED <<result, rtok, resp, csrf, cstate, attempt, locks,
                                       cbLock>>
  /\ UNCHANGED <<mgr, clock, store, issued, csrfNext, expFrom, top, snap>>

\* .send().await fails
EpSendErr(t) ==
  /\ pc[t] = "ep_send"
  /\ req' = [req EXCEPT ![t].sent = TRUE]
  /\ Finish(t, "Reqwest")
  /\ UNCHANGED <<mgr, clock, store, issued, csrfNext, expFrom, top, snap>>

\* .send().await: a response arrives
EpSendOk(t) ==
  /\ pc[t] = "ep_send"
  /\ \E h \in [RateLimitHeaders -> HeaderValues] : \E st \in StatusClasses :
       req' = [req EXCEPT ![t].sent = TRUE, ![t].headers = h, ![t].status = st]
  /\ Goto(t, "ep_limit")
  /\ UNCHANGED <<mgr, clock, store, cbLock, locks, issued, csrfNext, expFrom, top, result,
                 locals>>

\* RateLimit::new(headers) (animelists.rs 110, 186, 300, 437, 507; account.rs 85)
EpRateLimit(t) ==
  /\ pc[t] = "ep_limit"
  /\ IF RateLimitPanics(req[t].headers)
       THEN Finish(t, "Panic")
       ELSE /\ Goto(t, "ep_text")
            /\ UNCHANGED <<result, rtok, resp, csrf, cstate, attempt, locks, cbLock>>
  /\ UNCHANGED <<mgr, clock, store, issued, csrfNext, expFrom, top, req, snap>>

\* response.text().await fails
EpTextErr(t) ==
  /\ pc[t] = "ep_text"
  /\ Finish(t, "Reqwest")
  /\ UNCHANGED <<mgr, clock, store, issued, csrfNext, expFrom, top, req, snap>>

\* response.text().await: the body is read
EpTextOk(t) ==
  /\ pc[t] = "ep_text"
  /\ \E b \in EndpointBodies : req' = [req EXCEPT ![t].text = b]
  /\ Goto(t, "ep_class")
  /\ UNCHANGED <<mgr, clock, store, cbLock, locks, issued, csrfNext, expFrom, top, result,
                 locals>>

\* the tests on status and body that end send()
EpClassify(t) ==
  /\ pc[t] = "ep_class"
  /\ Finish(t, SendResult(builder[t].endpoint, req[t].status, req[t].text))
  /\ UNCHANGED <<mgr, clock, store, issued, csrfNext, expFrom, top, req, snap>>

EpSteps(t) ==
  \/ EpBuild(t) \/ EpSendErr(t) \/ EpSendOk(t) \/ EpRateLimit(t)
  \/ EpTextErr(t) \/ EpTextOk(t) \/ EpClassify(t)

\* ------------------------------------------------------------------- spec
RefreshSteps(t) ==
  \/ RefreshRead(t) \/ RefreshRecvErr(t) \/ RefreshRecvOk(t)
  \/ RefreshSetAccess(t) \/ RefreshSetRefresh(t) \/ RefreshSetExpiry(t)

RegenSteps(t) ==
  \/ RegenBegin(t) \/ RegenLock(t)
  \/ RegenCallbackErr(t) \/ RegenCallbackOk(t) \/ RegenCheckState(t) \/ RegenRecvErr(t) \/ RegenRecvOk(t)
  \/ RegenSetExpiry(t) \/ RegenSetAccess(t) \/ RegenSetRefresh(t)

TryRefreshSteps(t) ==
  \/ TryRefreshStart(t) \/ TryRefreshExpired(t)
  \/ TryRefreshLiveAccess(t) \/ TryRefreshLiveRefresh(t) \/ TryRefreshNoExpiry(t)

ReaderSteps(t) ==
  \/ ToTokensAccess(t) \/ ToTokensRefresh(t) \/ ToTokensExpiry(t)
  \/ IsValidAccess(t) \/ IsValidRefresh(t) \/ IsValidExpiry(t)

Setters(t) ==
  \/ SetAccessToken(t) \/ SetRefreshToken(t) \/ SetExpiresIn(t) \/ SetExpiresAt(t)

\* One caller: every operation of the manager, the unchecked setters and the clock.
Callers == {1}

Next ==
  \/ Tick
  \/ \E t \in Callers :
       \/ CallRefresh(t) \/ RefreshSteps(t)
       \/ CallRegenerate(t) \/ CallRegenerateAgain(t) \/ RegenSteps(t)
       \/ CallTryRefresh(t) \/ TryRefreshSteps(t)
       \/ CallRevoke(t) \/ RevokeSteps(t)
       \/ CallToTokens(t) \/ CallIsValid(t) \/ ReaderSteps(t)
       \/ Setters(t)
       \/ CallSetCallback(t) \/ SetCallback(t)
       \/ Return(t)

Spec == Init /\ [][Next]_vars

\* Concurrent callers of refresh(), regenerate(), the readers and set_callback().
NextConc ==
  \/ Tick
  \/ \E t \in Threads :
       \/ CallRefresh(t) \/ RefreshSteps(t)
       \/ CallRegenerate(t) \/ RegenSteps(t)
       \/ CallToTokens(t) \/ CallIsValid(t) \/ ReaderSteps(t)
       \/ CallSetCallback(t) \/ SetCallback(t)
       \/ Return(t)

SpecConc == Init /\ [][NextConc]_vars

\* Concurrent callers of regenerate() and set_callback(), the two users of the
\* callback mutex.
NextRegen ==
  \E t \in Threads :
    \/ CallRegenerate(t) \/ RegenSteps(t)
    \/ CallSetCallback(t) \/ SetCallback(t)
    \/ Return(t)

SpecRegen == Init /\ [][NextRegen]_vars

\* One caller of regenerate() while scopes are added from other threads.
NextScope ==
  \/ AddScope
  \/ \E t \in Callers :
       \/ CallRegenerate(t) \/ RegenSteps(t)
       \/ CallSetCallback(t) \/ SetCallback(t)
       \/ Return(t)

SpecScope == Init /\ [][NextScope]_vars

\* One caller of the dispatcher on a manager of the Token revision whose store is
\* filled through the setters.
InitApi == Init /\ kind = "Token"

NextApi ==
  \/ Tick
  \/ \E t \in Callers :
       \/ CallApiRequest(t) \/ ApiSteps(t)
       \/ SetAccessToken(t) \/ SetRefreshToken(t) \/ SetExpiresIn(t)
       \/ Return(t)

SpecApi == InitApi /\ [][NextApi]_vars

\* One owner of an Auth who fills it, saves it with to_tokens() and restores it
\* with into_auth().
InitPersist == Init /\ kind = "Auth"

NextPersist ==
  \/ Tick
  \/ AddScope
  \/ \E t \in Callers :
       \/ CallRefresh(t) \/ RefreshSteps(t)
       \/ Setters(t)
       \/ CallSetCallback(t) \/ SetCallback(t)
       \/ CallToTokens(t) \/ ToTokensAccess(t) \/ ToTokensRefresh(t) \/ ToTokensExpiry(t)
       \/ IntoAuth(t)
       \/ Return(t)

SpecPersist == InitPersist /\ [][NextPersist]_vars

\* Two clones of one client on two threads: the first changes the credentials
\* (setters, add_scope), the last reads them (is_valid, requests through
\* endpoint builders, and regenerate, which on the callback of construction ends
\* where it calls the callback).
Writers == {1}
Readers == {NumThreads}

NextShare ==
  \/ AddScope
  \/ \E t \in Writers :
       \/ SetAccessToken(t) \/ SetRefreshToken(t) \/ SetExpiresIn(t)
  \/ \E t \in Readers :
       \/ CallApiRequest(t) \/ ApiSteps(t)
       \/ CallIsValid(t) \/ IsValidAccess(t) \/ IsValidRefresh(t) \/ IsValidExpiry(t)
       \/ CallRegenerate(t) \/ RegenBegin(t) \/ RegenLock(t)
       \/ Return(t)

SpecShare == InitApi /\ [][NextShare]_vars

\* One caller of a Token manager who uses every operation that changes the manager
\* and sends requests in between.  The requests are followed up to send(), which
\* fails here; what api_request() does with a response is in SpecApi.
NextApp ==
  \/ AddScope
  \/ \E t \in Callers :
       \/ CallRefresh(t) \/ RefreshSteps(t)
       \/ CallRegenerate(t) \/ RegenSteps(t)
       \/ CallRevoke(t) \/ RevokeSteps(t)
       \/ SetAccessToken(t) \/ SetRefreshToken(t) \/ SetExpiresIn(t)
       \/ CallSetCallback(t) \/ SetCallback(t)
       \/ CallApiRequest(t) \/ ApiBuild(t) \/ ApiSendErr(t)
       \/ Return(t)

SpecApp == InitApi /\ [][NextApp]_vars

\* Concurrent callers of refresh(), regenerate(), is_valid() and the setters: the
\* users of the field mutexes.
NextLock ==
  \E t \in Threads :
    \/ CallRefresh(t) \/ RefreshSteps(t)
    \/ CallRegenerate(t) \/ RegenSteps(t)
    \/ CallIsValid(t) \/ IsValidAccess(t) \/ IsValidRefresh(t) \/ IsValidExpiry(t)
    \/ Setters(t)
    \/ CallSetCallback(t) \/ SetCallback(t)
    \/ Return(t)

SpecLock == Init /\ [][NextLock]_vars

\* A first thread that calls regenerate(), and a last thread that installs the
\* callbacks and calls regenerate(), refresh(), is_valid() and the token setters
\* meanwhile.
NextPending ==
  \/ \E t \in Writers :
       \/ CallRegenerate(t) \/ RegenSteps(t)
       \/ Return(t)
  \/ \E t \in Readers :
       \/ CallSetCallback(t) \/ SetCallback(t)
       \/ CallRegenerate(t) \/ RegenSteps(t)
       \/ CallRefresh(t) \/ RefreshSteps(t)
       \/ CallIsValid(t) \/ IsValidAccess(t) \/ IsValidRefresh(t) \/ IsValidExpiry(t)
       \/ SetAccessToken(t) \/ SetRefreshToken(t)
       \/ Return(t)

SpecPending == Init /\ [][NextPending]_vars

\* One caller who fills the store through the setters, revokes the tokens, asks
\* is_valid() and sends requests (followed up to send(), which fails here).
NextRevoke ==
  \/ Tick
  \/ \E t \in Callers :
       \/ SetAccessToken(t) \/ SetRefreshToken(t) \/ SetExpiresIn(t)
       \/ CallRevoke(t) \/ RevokeSteps(t)
       \/ CallIsValid(t) \/ IsValidAccess(t) \/ IsValidRefresh(t) \/ IsValidExpiry(t)
       \/ CallApiRequest(t) \/ ApiBuild(t) \/ ApiSendErr(t)
       \/ Return(t)

SpecRevoke == Init /\ [][NextRevoke]_vars

\* One owner of an ApiRequest on a manager of the Token revision: they fill the
\* callback slots, clone the ApiRequest, set the access token and send requests.
NextCb ==
  \E t \in Callers :
    \/ RequestCb(t) \/ ResponseCb(t) \/ ApiRequestClone(t)
    \/ SetAccessToken(t)
    \/ CallApiRequest(t) \/ ApiSteps(t)
    \/ Return(t)

SpecCb == InitApi /\ [][NextCb]_vars

\* One caller of the endpoint builders on a manager of the Token revision whose
\* access token is set through the setter.
NextEndpoint ==
  \E t \in Callers :
    \/ SetAccessToken(t)
    \/ CallSend(t) \/ EpSteps(t)
    \/ Return(t)

SpecEndpoint == InitApi /\ [][NextEndpoint]_vars

\* ================================================================ claims
TokenPresent(v) == v # None /\ v # Empty
ExpiryAhead     == expires_at # None /\ clock < expires_at
StoreFresh      == /\ access_token = InitToken(kind)
                   /\ refresh_token = InitToken(kind)
                   /\ expires_at = InitExpiry(kind)
RegenPcs        == {"rg_start", "rg_lock", "rg_cb", "rg_check", "rg_await",
                    "rg_setE", "rg_setA", "rg_setR"}
\* from the callback's invocation to the last store update
AttemptPcs      == RegenPcs \ {"rg_start", "rg_lock"}
Moved(t)        == pc'[t] # pc[t]
Returns(t, r)   == pc[t] # "done" /\ pc'[t] = "done" /\ result'[t] = r

\* C1: try_refresh() escalates to regenerate(): with a refresh token that is not
\* valid it does not return without acting, a failed refresh() inside it is
\* followed by regenerate(), and only regenerate() makes it return a failure.
C1_TryRefreshEscalates ==
  [][\A t \in Threads : top[t] = "try_refresh" /\ Moved(t) =>
       /\ pc[t] = "tr_start" /\ ~(TokenPresent(refresh_token) /\ ExpiryAhead)
            => pc'[t] # "done"
       /\ pc[t] \in {"rf_read", "rf_await"} /\ pc'[t] \notin {"rf_await", "rf_setA"}
            => pc'[t] = "rg_start"
       /\ pc'[t] = "done" /\ result'[t] # "Ok" => pc[t] \in RegenPcs]_vars

\* C2: with expires_at past or absent and a refresh token present, a try_refresh()
\* that returns Ok leaves is_valid() true: both when it returns straight from its
\* test and when it returns from the refresh exchange it started.
C2_TryRefreshHeals ==
  [][\A t \in Threads : top[t] = "try_refresh" /\ Returns(t, "Ok") =>
       /\ pc[t] = "tr_start" /\ TokenPresent(refresh_token) /\ ~ExpiryAhead => is_valid'
       /\ kind = "Token" /\ pc[t] = "rf_setE" => is_valid']_vars

\* C3: no step of regenerate() up to the state check writes the store, a returned
\* state other than the one of this attempt ends the call with StateMismatch,
\* and StateMismatch is returned for no other reason.
C3_StateMismatchLeavesStore ==
  [][\A t \in Threads :
       pc[t] \in {"rg_start", "rg_lock", "rg_cb", "rg_check"} /\ Moved(t) =>
         /\ store' = store
         /\ pc[t] = "rg_check" /\ cstate[t] # csrf[t] => Returns(t, "StateMismatch")
         /\ Returns(t, "StateMismatch") => pc[t] = "rg_check" /\ cstate[t] # csrf[t]]_vars

C3_Witness ==
  \E t \in Threads : /\ pc[t] = "done" /\ result[t] = "StateMismatch"
                     /\ access_token \in 1..MaxIssued /\ refresh_token \in 1..MaxIssued

\* C4: a reader that has read all three fields holds the triple of one exchange
\* (or the triple of construction), never fields of two exchanges.
\* a, r: the tokens read; e: the token response the expiry read was computed from
FromOneExchange(a, r, e) ==
  \/ a = InitToken(kind) /\ r = InitToken(kind) /\ e = 0
  \/ a \in 1..MaxIssued /\ r \in {a, None} /\ e = a

C4_ReadersSeeOneExchange ==
  \A t \in Threads :
    pc[t] = "done" /\ top[t] \in {"to_tokens", "is_valid"} /\ snap[t].at # Unset
      => FromOneExchange(snap[t].at, snap[t].rt, snap[t].ef)

\* C5: at most one regenerate() is between the invocation of the callback and the
\* end of its attempt, and that one holds the callback mutex.
C5_OneGrantInFlight ==
  \A t \in Threads : pc[t] \in AttemptPcs =>
    /\ cbLock = t
    /\ \A u \in Threads \ {t} : pc[u] \notin AttemptPcs

C5_Witness ==
  \E t \in Threads : \E u \in Threads \ {t} : pc[t] = "rg_await" /\ pc[u] = "rg_lock"

\* C6: is_valid() is false on a fresh manager, true at the instant a successful
\* refresh() or regenerate() computed expires_at from a response with an expiry,
\* and false whenever the clock is at or past expires_at.
C6_IsValidLifecycle ==
  [][/\ StoreFresh => ~is_valid
     /\ ~ExpiryAhead => ~is_valid
     /\ \A t \in Threads :
          top[t] \in {"refresh", "regenerate"} /\ Returns(t, "Ok") /\ resp[t].exp # None
            => IsValidResult(kind, access_token', refresh_token', expires_at',
                             expires_at' - resp[t].exp)]_vars

\* C7: is_valid() is true exactly when an access token is present and
\* now < expires_at.
C7_IsValidDefinition ==
  is_valid <=> (TokenPresent(access_token) /\ ExpiryAhead)

\* C8: is_refresh_valid() is true exactly when a refresh token is present and
\* now < expires_at, the expires_at is_valid() uses.
C8_IsRefreshValidDefinition ==
  kind = "Auth" => (is_refresh_valid <=> (TokenPresent(refresh_token) /\ ExpiryAhead))

\* C9: refresh() without a refresh token sends no request, leaves the store alone
\* and returns the Refresh error.
C9_RefreshWithoutToken ==
  [][\A t \in Threads : pc[t] = "rf_read" /\ ~TokenPresent(refresh_token) /\ Moved(t) =>
       /\ store' = store
       /\ pc'[t] # "rf_await"
       /\ top[t] = "refresh" => Returns(t, "Refresh")]_vars

\* C10: a refresh() whose exchange fails has not written the store when it
\* returns, and it returns the OAuth2 error; OAuth2 is returned for no other reason.
C10_FailedExchangeLeavesStore ==
  [][\A t \in Threads : pc[t] \in {"rf_read", "rf_await"} /\ Moved(t) =>
       /\ store' = store
       /\ pc[t] = "rf_await" /\ pc'[t] # "rf_setA" /\ top[t] = "refresh"
            => Returns(t, "OAuth2")
       /\ top[t] = "refresh" /\ Returns(t, "OAuth2") => pc[t] = "rf_await"]_vars

C10_Witness ==
  \E t \in Threads : /\ pc[t] = "done" /\ top[t] = "refresh" /\ result[t] = "OAuth2"
                     /\ access_token \in 1..MaxIssued /\ refresh_token \in 1..MaxIssued

\* C11: a regenerate() whose callback fails returns Callback, one whose code
\* exchange fails returns Access, neither error is returned for another reason,
\* and no step of the call up to the failure has written the store.
C11_FailedGrantLeavesStore ==
  [][\A t \in Threads :
       /\ pc[t] \in {"rg_start", "rg_lock", "rg_cb", "rg_check", "rg_await"} /\ Moved(t)
            => store' = store
       /\ pc[t] = "rg_cb" /\ Moved(t) /\ pc'[t] # "rg_check" => Returns(t, "Callback")
       /\ pc[t] = "rg_await" /\ Moved(t) /\ pc'[t] # "rg_setE" => Returns(t, "Access")
       /\ Returns(t, "Callback") => pc[t] = "rg_cb"
       /\ Returns(t, "Access") => pc[t] = "rg_await"]_vars

C11_Witness ==
  \E t \in Threads : /\ pc[t] = "done" /\ top[t] = "regenerate" /\ result[t] = "Access"
                     /\ access_token \in 1..MaxIssued /\ expires_at = Ttl + 1

\* C12: there is no terminal failure: a call that returns a TokenError holds neither
\* the callback lock nor a field lock afterwards, and a regenerate() called after
\* such a failure whose callback and exchange succeed returns Ok with an access
\* token in the store and an expiry that was ahead of the clock when it was set.
C12_NoTerminalFailure ==
  [][\A t \in Threads :
       /\ pc[t] # "done" /\ pc'[t] = "done" /\ result'[t] \in Failures
            => cbLock' # t /\ \A f \in Fields : locks'[f] # t
       /\ top[t] = "regenerate_again" /\ pc[t] \in {"rg_setE", "rg_setA", "rg_setR"}
          /\ pc'[t] = "done"
            => /\ result'[t] = "Ok"
               /\ TokenPresent(access_token')
               /\ expires_at' # None /\ resp[t].exp # None
               /\ expires_at' - resp[t].exp < expires_at']_vars

\* C13: regenerate() on a manager that still has the callback of construction
\* returns a TokenError to its caller at once and leaves the store alone.
C13_DefaultCallbackFailsFast ==
  [][\A t \in Threads : pc[t] = "rg_lock" /\ callback = "unimplemented" /\ Moved(t) =>
       /\ store' = store
       /\ pc'[t] = "done" /\ result'[t] \in Failures]_vars

\* A regenerate() is in flight from its first statements to its return.
InFlight(t) == pc[t] \in {"rg_lock"} \cup AttemptPcs

\* The callback a regenerate() in flight is bound to: the one it took, and before
\* it took one the callback the manager has held since the call started.
BoundCallback(t) == IF pc[t] \in AttemptPcs THEN attempt[t].callback ELSE callback

\* C14: set_callback() does not affect a regenerate() in flight: no step changes
\* the callback that call is bound to, so it runs with the callback installed
\* when it started, and a call that starts after set_callback() returned is bound
\* to the new one.
C14_SwapLeavesAttempt ==
  [][\A t \in Threads : InFlight(t) /\ InFlight(t)' => BoundCallback(t)' = BoundCallback(t)]_vars

\* C14 as amended: a regenerate() takes the callback installed at the moment it
\* acquires the callback mutex, and from then until it returns it keeps that
\* callback and no set_callback() completes.
C14_AttemptKeepsTakenCallback ==
  [][\A t \in Threads :
       /\ pc[t] = "rg_lock" /\ pc'[t] = "rg_cb" => attempt'[t].callback = callback
       /\ pc[t] \in AttemptPcs =>
            /\ callback' = callback
            /\ attempt[t].callback = callback
            /\ pc'[t] \in AttemptPcs => attempt'[t].callback = attempt[t].callback]_vars

C14_Witness ==
  \E t \in Threads : \E u \in Threads \ {t} :
    /\ pc[t] = "rg_await" /\ attempt[t].callback = "cb2"
    /\ pc[u] = "sc_lock"

\* C15: revoke_token() / revoke_refresh_token() with the token absent sends no
\* revocation request and returns Ok; once a request is sent the call returns Ok
\* or the Revoke error, and Revoke is returned only for a failed request.
C15_RevokeAbsentToken ==
  [][\A t \in Threads :
       /\ pc[t] = "rv_read" /\ ~TokenPresent(RevokedField(top[t])) /\ Moved(t)
            => pc'[t] # "rv_await" /\ Returns(t, "Ok")
       /\ pc[t] = "rv_await" /\ Moved(t) => Returns(t, "Ok") \/ Returns(t, "Revoke")
       /\ Returns(t, "Revoke") => pc[t] = "rv_await"]_vars

\* C16: add_scope(s) appends s to the scope list and changes nothing else; a
\* regenerate() puts into its URL the scope list as it is when the call starts, in
\* order, and keeps it for the whole attempt, whatever is added meanwhile.
C16_ScopesFixedAtStart ==
  [][/\ scopes' # scopes =>
          /\ \E sc \in ScopeNames : scopes' = Append(scopes, sc)
          /\ store' = store /\ callback' = callback /\ is_valid' = is_valid
          /\ attempt' = attempt /\ pc' = pc
     /\ \A t \in Threads :
          /\ pc[t] = "rg_start" /\ pc'[t] = "rg_lock" => attempt'[t].scopes = scopes
          /\ InFlight(t) /\ InFlight(t)' => attempt'[t].scopes = attempt[t].scopes]_vars

C16_Witness ==
  \E t \in Threads : /\ pc[t] = "rg_await"
                     /\ attempt[t].scopes = <<"s2">>
                     /\ scopes = <<"s2", "s1">>

\* C17: a user-scoped api_request() on a store that is as construction left it
\* returns the access-token-missing error from its first step, without writing
\* the store and without a request having been sent; that error is returned by
\* no other step.
C17_EmptyStoreNoRequest ==
  [][\A t \in Threads :
       /\ pc[t] = "ar_build" /\ req[t].is_auth /\ StoreFresh /\ Moved(t)
            => Returns(t, "AccessTokenError") /\ ~req'[t].sent /\ store' = store
       /\ Returns(t, "AccessTokenError")
            => pc[t] = "ar_build" /\ req[t].is_auth /\ ~req'[t].sent]_vars

C17_Witness ==
  \E t \in Threads : /\ pc[t] = "done" /\ top[t] = "api_request"
                     /\ result[t] = "AccessTokenError"
                     /\ StoreFresh /\ ~req[t].sent

\* C18: a user-scoped api_request() that finds no access token, or an access token
\* whose expires_at the clock has reached, returns the access-token-missing error
\* instead of going on to send.
C18_NoStaleCredentialSent ==
  [][\A t \in Threads :
       /\ pc[t] = "ar_build" /\ req[t].is_auth /\ Moved(t)
       /\ \/ ~TokenPresent(access_token)
          \/ expires_at # None /\ clock >= expires_at
       => Returns(t, "AccessTokenError")]_vars

\* C19: an api_request() whose response lacks one of the three rate-limit headers
\* ends with an ApiError value returned to the caller.
C19_MissingHeaderIsTypedError ==
  \A t \in Threads :
    /\ pc[t] = "done" /\ top[t] = "api_request" /\ req[t].status # "none"
    /\ \E n \in RateLimitHeaders : req[t].headers[n] = "absent"
    => result[t] \in ApiErrors

\* C20: an api_request() that has read the body returns ApiError when the body is
\* not JSON or the status is 4xx or 5xx, and only otherwise the decoded result
\* (or the decoder's error).
C20_ResponseClassification ==
  \A t \in Threads :
    pc[t] = "done" /\ top[t] = "api_request" /\ req[t].text # "none" =>
      IF req[t].text = "not_json" \/ req[t].status \in {"4xx", "5xx"}
        THEN result[t] = "ApiError"
        ELSE result[t] \in {"Ok", "ParseError"}

CallOrder == <<"tr_start", "tr_expired", "tr_noexp", "tr_live", "tr_live_r",
               "rf_read", "rf_await", "rf_setA", "rf_setR", "rf_setE",
               "rg_start", "rg_lock", "rg_cb", "rg_check", "rg_await",
               "rg_setE", "rg_setA", "rg_setR", "done">>
Rank(p) == CHOOSE i \in 1..Len(CallOrder) : CallOrder[i] = p

\* C23: a try_refresh() call never goes back: every step takes it forward in the
\* order of its code, so it sends at most one refresh exchange (one visit of
\* rf_await), calls the callback at most once (rg_cb), sends at most one code
\* exchange (rg_await), and has returned after a bounded number of steps.
C23_OneEscalation ==
  [][\A t \in Threads : top[t] = "try_refresh" /\ pc[t] # "done" /\ Moved(t) =>
       /\ Rank(pc'[t]) > Rank(pc[t])
       /\ pc'[t] = "rf_await" => pc[t] = "rf_read"
       /\ pc'[t] = "rg_cb" => pc[t] = "rg_lock"
       /\ pc'[t] = "rg_await" => pc[t] = "rg_check"]_vars

\* a try_refresh() whose refresh exchange failed is in its code exchange
C23_Witness ==
  \E t \in Threads : /\ top[t] = "try_refresh" /\ pc[t] = "rg_await"
                     /\ kind = "Token" /\ refresh_token # None /\ expires_at = None

C25_ValidStoreServed ==
  [][\A t \in Threads :
       top[t] = "try_refresh" /\ Moved(t)
       /\ TokenPresent(access_token) /\ TokenPresent(refresh_token) =>
         /\ pc[t] = "tr_start" /\ ExpiryAhead
              => pc'[t] \in {"tr_live", "done"} /\ store' = store
         /\ pc[t] \in {"tr_live", "tr_live_r"}
              => pc'[t] \in {"tr_live_r", "done"} /\ store' = store
         /\ pc[t] \in {"tr_start", "tr_live", "tr_live_r"} /\ pc'[t] = "done"
              => result'[t] = "Ok"]_vars

\* C26: when every thread has come back with Ok from a refresh() or a
\* regenerate() that ran concurrently with the others, the store holds the access
\* token, the refresh token and the expiry of one and the same exchange.
C26_StoreFromOneExchange ==
  (\A t \in Threads : /\ pc[t] = "done" /\ result[t] = "Ok"
                      /\ top[t] \in {"refresh", "regenerate"})
    => FromOneExchange(access_token, refresh_token, expFrom)

\* The field mutex the next step of a thread at position p locks.
LockWanted(p) ==
  CASE p \in {"rf_setA", "rg_setA", "iv_a", "tr_live", "ar_build"} -> "A"
    [] p \in {"rf_read", "rf_setR", "rg_setR", "iv_r", "tr_expired", "tr_live_r", "tr_noexp"} -> "R"
    [] p \in {"rf_setE", "rg_setE", "iv_e", "tr_start"} -> "E"
    [] OTHER -> "none"

\* t is blocked in lock() on a field mutex whose guard u holds.
WaitsFor(t, u) == LockWanted(pc[t]) # "none" /\ locks[LockWanted(pc[t])] = u

\* C27: no interleaving of refresh(), regenerate() and the readers deadlocks: no
\* two calls each wait for a field lock the other holds (and none waits for a
\* lock it holds itself).
C27_NoDeadlock ==
  \A t, u \in Threads : ~(WaitsFor(t, u) /\ WaitsFor(u, t))

\* C28: there is no timeout on the callback.  A regenerate() whose callback is
\* pending leaves that position only when the callback resolves (to a state or to
\* an error); meanwhile it holds the callback mutex and no field mutex, every
\* other regenerate() and set_callback() stays where it waits for the callback
\* mutex, and the steps of refresh(), is_valid() and the setters of another
\* thread can be taken (unless a third call holds a field mutex at that moment).
C28_PendingCallbackBlocks ==
  [][\A t \in Threads : pc[t] = "rg_cb" =>
       /\ Moved(t) => pc'[t] = "rg_check" \/ Returns(t, "Callback")
       /\ cbLock = t /\ \A f \in Fields : locks[f] # t
       /\ \A u \in Threads \ {t} :
            /\ pc[u] \in {"rg_lock", "sc_lock"} => pc'[u] = pc[u]
            /\ (\A f \in Fields : locks[f] \in {NoThread, u}) =>
                 /\ pc[u] \in {"rf_read", "rf_await", "rf_setA", "rf_setR", "rf_setE"}
                      => ENABLED RefreshSteps(u)
                 /\ pc[u] \in {"iv_a", "iv_r", "iv_e"}
                      => ENABLED (IsValidAccess(u) \/ IsValidRefresh(u) \/ IsValidExpiry(u))
                 /\ pc[u] = "idle"
                      => /\ ENABLED SetAccessToken(u) /\ ENABLED SetRefreshToken(u)
                         /\ ENABLED SetExpiresIn(u)]_vars

\* while the callback of one regenerate() is pending, a refresh() of the other
\* thread is storing its response
C28_Witness ==
  \E t \in Writers : \E u \in Readers :
    /\ pc[t] = "rg_cb"
    /\ pc[u] = "rf_setE" /\ locks["A"] = u /\ locks["R"] = u

\* C29: every regenerate() attempt draws a CSRF state of its own, another one than
\* the next attempt will draw; the code exchange is sent only from the state check
\* and only when the callback returned the state of this attempt; any other
\* returned state, that of an earlier attempt included, ends the call with
\* StateMismatch before a token response is asked for.
C29_StatePerAttempt ==
  [][\A t \in Threads :
       /\ pc[t] = "rg_start" /\ Moved(t)
            => csrf'[t] = csrfNext /\ csrfNext' # csrf'[t]
       /\ pc[t] \in AttemptPcs /\ pc'[t] \in AttemptPcs => csrf'[t] = csrf[t]
       /\ pc[t] # "rg_await" /\ pc'[t] = "rg_await"
            => pc[t] = "rg_check" /\ cstate[t] = csrf[t]
       /\ pc[t] = "rg_check" /\ cstate[t] # csrf[t] /\ Moved(t)
            => Returns(t, "StateMismatch") /\ issued' = issued /\ store' = store]_vars

\* the callback of a second attempt has returned the state of the first
C29_Witness ==
  \E t \in Threads : /\ pc[t] = "rg_check" /\ top[t] = "regenerate_again"
                     /\ csrf[t] = 2 /\ cstate[t] = 1

\* C30: a refresh() or regenerate() that returns Ok after a response with an access
\* token, a refresh token and an expires_in leaves all three fields taken from
\* that response: the two tokens are the response's, and expires_at is the clock
\* at the statement that stored it plus expires_in (the last statement of
\* refresh(), the first store of regenerate()).
C30_SuccessReplacesTriple ==
  [][\A t \in Threads :
       resp[t].ref # None /\ resp[t].exp # None =>
         /\ pc[t] \in {"rf_setE", "rg_setE"} /\ Moved(t)
              => expires_at' = clock + resp[t].exp
         /\ pc[t] \in {"rf_setE", "rg_setR"} /\ Moved(t)
              => /\ Returns(t, "Ok")
                 /\ access_token' = resp[t].acc
                 /\ refresh_token' = resp[t].ref
                 /\ expFrom' = resp[t].acc
                 /\ expires_at' - resp[t].exp <= clock]_vars

\* a second exchange has replaced the triple of the first
C30_Witness ==
  \E t \in Threads : /\ pc[t] = "done" /\ top[t] = "refresh" /\ result[t] = "Ok"
                     /\ issued = 2 /\ access_token = 2 /\ refresh_token = 2
                     /\ expFrom = 2 /\ expires_at = clock + Ttl

\* C31: a refresh() or regenerate() that returns Ok leaves an access token, a
\* refresh token and an expiry in the store, also after a token response without
\* refresh_token or without expires_in, and storing such a response never panics.
C31_SuccessKeepsTriple ==
  [][\A t \in Threads :
       /\ pc[t] \in {"rf_setE", "rg_setR"} /\ Returns(t, "Ok")
            => /\ TokenPresent(access_token')
               /\ TokenPresent(refresh_token')
               /\ expires_at' # None /\ expires_at' # InitExpiry("Auth")
       /\ pc[t] \in {"rf_setR", "rf_setE", "rg_setE", "rg_setR"} /\ Moved(t)
            => result'[t] # "Panic"]_vars

\* C32: revoke_token() and revoke_refresh_token() leave the credential store and
\* the scopes as they are, whether the revocation succeeds or fails: is_valid()
\* is the same after every step of a revocation, the token that was revoked is
\* still the stored one when the call returns, and a user-scoped request attaches
\* the stored access token.
C32_RevokeLeavesStore ==
  [][\A t \in Threads :
       /\ pc[t] \in {"rv_read", "rv_await"} /\ Moved(t)
            => /\ access_token' = access_token
               /\ refresh_token' = refresh_token
               /\ expires_at' = expires_at
               /\ scopes' = scopes
               /\ IsValidResult(kind', access_token', refresh_token', expires_at', clock')
                    = is_valid
       /\ pc[t] = "rv_await" /\ Moved(t)
            => /\ Returns(t, "Ok") \/ Returns(t, "Revoke")
               /\ RevokedField(top[t])' = rtok[t]
       /\ pc[t] = "ar_build" /\ req[t].is_auth /\ TokenPresent(access_token) /\ Moved(t)
            => req'[t].bearer = access_token]_vars

\* the access token was revoked at the provider and is still in a valid store
C32_Witness ==
  \E t \in Threads : /\ pc[t] = "done" /\ top[t] = "revoke_token" /\ result[t] = "Ok"
                     /\ TokenPresent(access_token) /\ is_valid

\* C33: a callback registered on an ApiRequest runs at most once, and only in the
\* first api_request() call begun after it was registered, also when that call
\* fails before it reaches the callback; a clone of an ApiRequest has no
\* callbacks.
C33_CallbackPerCall ==
  [][\A t \in Threads :
       /\ \A s \in Slots :
            /\ cbHist'[t][s].runs <= 1
            /\ cbHist'[t][s].runs > cbHist[t][s].runs => cbHist[t][s].calls = 1
       /\ pc[t] = "idle" /\ top'[t] = "clone" => api'[t] = NoCallbacks]_vars

\* C34: an anime-list GET with a user_id carries the app token and does not fail
\* with the access-token-missing error, also on an empty store; without a user_id
\* it carries the user's access token and fails with that error when there is
\* none.  An anime-list PUT or DELETE that goes out carries the user's access
\* token, with a user_id or without, and fails with that error when there is none.
C34_BearerByUserId ==
  [][\A t \in Threads :
       pc[t] = "ep_build" /\ Moved(t) =>
         LET b == builder[t]
             Complete == /\ b.endpoint = "AnimeListsPut" => b.xml
                         /\ b.endpoint = "AnimeListsPutRoute" => b.etag
                         /\ b.endpoint = "AnimeListsDelete" => b.route
         IN
         /\ b.endpoint \in ListReads /\ b.user_id
              => pc'[t] = "ep_send" /\ req'[t].bearer = app_token
         /\ b.endpoint \in ListReads /\ ~b.user_id
              => IF access_token = None
                   THEN Returns(t, "AccessTokenError")
                   ELSE pc'[t] = "ep_send" /\ req'[t].bearer = access_token
         /\ b.endpoint \in ListWrites
              => /\ pc'[t] = "ep_send" => access_token # None /\ req'[t].bearer = access_token
                 /\ pc'[t] = "done" => result'[t] \in {"AccessTokenError", "Xml", "Etag", "Route"}
                 /\ Returns(t, "AccessTokenError") <=>
                      access_token = None /\ Complete]_vars

\* a list of another user is asked for on an empty store, with the app token
C34_Witness ==
  \E t \in Threads : /\ pc[t] = "ep_send" /\ builder[t].endpoint = "AnimeListsGet"
                     /\ builder[t].user_id /\ StoreFresh
                     /\ req[t].bearer = AppToken

\* C35: send() on a builder whose mandatory field is missing returns the error of
\* that field (Xml, Etag, Route, UserId) without a request having been sent and
\* without a bearer token having been read, whatever the store holds.
C35_MissingFieldFirst ==
  [][\A t \in Threads :
       pc[t] = "ep_build" /\ Moved(t) =>
         LET b == builder[t]
             Fails(e) == Returns(t, e) /\ ~req'[t].sent /\ req'[t].bearer = Unset
         IN
         /\ b.endpoint = "AnimeListsPut" /\ ~b.xml => Fails("Xml")
         /\ b.endpoint = "AnimeListsPutRoute" /\ ~b.etag => Fails("Etag")
         /\ b.endpoint = "AnimeListsDelete" /\ ~b.route => Fails("Route")
         /\ b.endpoint \in Accounts /\ ~b.user_id => Fails("UserId")]_vars

\* an import without xml on an empty store
C35_Witness ==
  \E t \in Threads : /\ pc[t] = "done" /\ top[t] = "send" /\ result[t] = "Xml"
                     /\ builder[t].endpoint = "AnimeListsPut" /\ ~builder[t].xml
                     /\ StoreFresh /\ ~req[t].sent

====
